---------------------------- MODULE Spec2Model ----------------------------
(***************************************************************************)
(* A model of app.py: the Flask endpoint execute_task, the five browser    *)
(* tools that act on the module-level page handle, and the agent_executor  *)
(* (a LangChain AgentExecutor built with handle_parsing_errors=True and    *)
(* every other option left at its default) that drives them.               *)
(*                                                                         *)
(* Strings the code builds are modelled by what they are built from: a     *)
(* Text is a slice [src, off, len] of a named base string, so that         *)
(* content[:4000] is a real truncation, and an observation is the f-string *)
(* that produced it (its template) with the values interpolated.           *)
(***************************************************************************)
EXTENDS Naturals, Sequences, FiniteSets

(* ------------------------------ bounds -------------------------------- *)

\* Longest oracle script; the oracle answers iteration i with entry
\* (i mod length) of its script, so a script of length 2 can alternate.
MaxScriptLen == 2

\* The requests the server receives (each is one call of execute_task).
Tasks == {"t1", "t2"}

(* ------------------------- program constants -------------------------- *)

\* AgentExecutor(...) is built without max_iterations: the default applies.
MaxIterations == 15

\* content[:4000]
MaxContentLen == 4000

NoPage == "None"

ToolNames ==
    {"google_search", "navigate_to_url", "type_text", "click_element",
     "read_current_page_content"}

FinalAnswer == "Final Answer"

(* ------------------------------- texts -------------------------------- *)

Min(a, b) == IF a <= b THEN a ELSE b

Text(src, len) == [src |-> src, off |-> 0, len |-> len]

NoText == Text("", 0)

\* s[:n]
Take(s, n) == [s EXCEPT !.len = Min(s.len, n)]

\* The documents a page can show, and the visible text of each
\* (page.locator('body').inner_text()).
Docs == {"about:blank", "google", "results", "portal"}

DocText(doc) ==
    CASE doc = "about:blank" -> Text(doc, 0)
      [] doc = "google"      -> Text(doc, 120)
      [] doc = "results"     -> Text(doc, 4000)
      [] doc = "portal"      -> Text(doc, 10000)

\* The documents that show the search box, textarea[name="q"].
HasSearchBox(doc) == doc \in {"google", "results"}

\* page.keyboard.press("Enter"): submits the search box if the document
\* has one and it holds a query (box), and does nothing otherwise.
Entered(doc, box) == IF HasSearchBox(doc) /\ box # "" THEN "results" ELSE doc

\* Where page.goto(url) lands; a URL that does not resolve raises.
GoodUrls == {"https://portal"}

UrlDoc(url) == "portal"

\* Selectors that resolve to an element (on any loaded document).
SelectorResolves(sel) == sel = "#ok"

\* str(e) of the exceptions a page operation raises.
ClosedError == Text("Target page, context or browser has been closed", 47)
TimeoutError == Text("Timeout 30000ms exceeded.", 25)
NavError == Text("net::ERR_NAME_NOT_RESOLVED", 26)
ThreadError == Text("cannot switch to a different thread", 35)
\* str(e) of what the calls of session setup raise of their own.
LaunchError == "BrowserType.launch: Executable doesn't exist"
ContextError == "Browser.new_context: Protocol error"
NewPageError == "BrowserContext.new_page: Protocol error"

\* What the driver reports once the connection to the browser is lost: a
\* short message, or one carrying a long call log.
LostErrors == {Text("Connection closed", 17), Text("Connection closed + call log", 4200)}

(* ---------------------------- observations ----------------------------- *)

\* An observation is the template of the string the code returns, the
\* value interpolated as a name (arg) and the text interpolated (body).
Obs(tmpl, arg, body) == [tmpl |-> tmpl, arg |-> arg, body |-> body]

\* Length of the fixed part of each template of read_current_page_content.
TmplLen(tmpl) ==
    CASE tmpl = "Browser is not running." -> 23
      [] tmpl = "Could not get page content. Error: {e}" -> 35
      [] tmpl = "{content}" -> 0
      [] OTHER -> 0

ObsLen(o) == TmplLen(o.tmpl) + o.body.len

NotRunning == Obs("Browser is not running.", "", NoText)

(* ------------------------------- state --------------------------------- *)

VARIABLES
    page,          \* the module-level handle: NoPage, or the task whose page it is
    browserState,  \* per task, its browser: "none", "open", "lost", "closed"
    lostMsg,       \* per task, what its browser's driver reports once lost
    pageMade,      \* per task, whether context.new_page() returned its page
    pageDoc,       \* per task, the document its page shows
    searchBox,     \* per task, the text in the search box of its page
    pageUsers,     \* per task, the tasks whose tools operated on its page
    closeCalls,    \* per task, the calls of browser.close() on its browser
    pc,            \* per task, where execute_task is
    script,        \* per task, the oracle's answers for the task
    iterations,    \* per task, AgentExecutor's iteration counter
    history,       \* per task, AgentExecutor's intermediate_steps
    pending,       \* per task, the action the agent planned and has not run
    op,            \* per task, the page operation its tool's body is at (0: in no body)
    oracleCalls,   \* per task, the calls of the oracle made for it
    result         \* per task, the response execute_task returns

vars ==
    <<page, browserState, lostMsg, pageMade, pageDoc, searchBox, pageUsers, closeCalls, pc, script,
      iterations, history, pending, op, oracleCalls, result>>

(* ------------------------------- tools --------------------------------- *)

\* Whether an operation on page p raises, and with what. xthread: the
\* operation is issued from a thread other than the one that owns the
\* page's driver and the driver refuses it.
PageRaises(p, xthread) == browserState[p] # "open" \/ xthread

PageError(p) ==
    CASE browserState[p] = "closed" -> ClosedError
      [] browserState[p] = "lost"   -> lostMsg[p]
      [] OTHER                      -> ThreadError

\* What one page operation of a tool's body gives: the body goes on to
\* its next operation (done FALSE), or the tool returns the observation;
\* the document the page shows afterwards; and whether an exception left
\* the tool instead (every page operation of the five tools is inside a
\* try whose except returns a text, so none does).
Goes(doc, box) ==
    [obs |-> Obs("", "", NoText), done |-> FALSE, doc |-> doc, box |-> box, raised |-> FALSE]

Outcome(obs, doc, box) ==
    [obs |-> obs, done |-> TRUE, doc |-> doc, box |-> box, raised |-> FALSE]

Raised(e, doc, box) ==
    [obs |-> Obs("", "", e), done |-> TRUE, doc |-> doc, box |-> box, raised |-> TRUE]

\* Each tool below is its try block: operation k of the body, issued on
\* the page the module-level handle names when the operation starts (the
\* body reads the global for each one).

\* goto, fill, keyboard.press
google_search(query, k, xthread) ==
    IF PageRaises(page, xthread)
    THEN Outcome(Obs("Error during Google search: {e}", "", PageError(page)), pageDoc[page], searchBox[page])
    ELSE CASE k = 1 -> Goes("google", "")
           [] k = 2 -> IF HasSearchBox(pageDoc[page])
                       THEN Goes(pageDoc[page], query)
                       ELSE Outcome(Obs("Error during Google search: {e}", "", TimeoutError),
                                    pageDoc[page], searchBox[page])
           [] k = 3 -> Outcome(Obs("Successfully searched for '{query}'. The results are now on the screen.",
                                   query, NoText),
                               Entered(pageDoc[page], searchBox[page]), searchBox[page])

navigate_to_url(url, xthread) ==
    IF PageRaises(page, xthread)
    THEN Outcome(Obs("Error navigating to url: {e}", "", PageError(page)), pageDoc[page], searchBox[page])
    ELSE IF url \notin GoodUrls
         THEN Outcome(Obs("Error navigating to url: {e}", "", NavError), pageDoc[page], searchBox[page])
         ELSE Outcome(Obs("Successfully navigated to {url}.", url, NoText), UrlDoc(url), "")

type_text(css_selector, text, xthread) ==
    IF PageRaises(page, xthread)
    THEN Outcome(Obs("Error typing text: {e}", "", PageError(page)), pageDoc[page], searchBox[page])
    ELSE IF ~SelectorResolves(css_selector)
         THEN Outcome(Obs("Error typing text: {e}", "", TimeoutError), pageDoc[page], searchBox[page])
         ELSE Outcome(Obs("Successfully typed '{text}' into the element.", text, NoText),
                      pageDoc[page], searchBox[page])

\* click_element without its try.
click_elementNoTry(css_selector, xthread) ==
    IF PageRaises(page, xthread)
    THEN Raised(PageError(page), pageDoc[page], searchBox[page])
    ELSE IF ~SelectorResolves(css_selector)
         THEN Raised(TimeoutError, pageDoc[page], searchBox[page])
         ELSE Outcome(Obs("Successfully clicked the element.", "", NoText), pageDoc[page], searchBox[page])

click_element(css_selector, xthread) ==
    IF PageRaises(page, xthread)
    THEN Outcome(Obs("Error clicking element: {e}", "", PageError(page)), pageDoc[page], searchBox[page])
    ELSE IF ~SelectorResolves(css_selector)
         THEN Outcome(Obs("Error clicking element: {e}", "", TimeoutError), pageDoc[page], searchBox[page])
         ELSE Outcome(Obs("Successfully clicked the element.", "", NoText), pageDoc[page], searchBox[page])

\* wait_for_load_state, inner_text
read_current_page_content(k, xthread) ==
    IF PageRaises(page, xthread)
    THEN Outcome(Obs("Could not get page content. Error: {e}", "", PageError(page)),
                 pageDoc[page], searchBox[page])
    ELSE CASE k = 1 -> Goes(pageDoc[page], searchBox[page])
           [] k = 2 -> Outcome(Obs("{content}", "", Take(DocText(pageDoc[page]), MaxContentLen)),
                               pageDoc[page], searchBox[page])

\* The declared inputs of each tool (type_text has args_schema TypeTextInput).
Arity(tool) ==
    CASE tool = "type_text" -> 2
      [] tool = "read_current_page_content" -> 0
      [] OTHER -> 1

\* tool.run validates the input against the schema before the body runs.
InputValid(tool, input) == Len(input) = Arity(tool)

\* Operation k of the body of the tool.
RunTool(tool, input, k, xthread) ==
    CASE tool = "google_search"   -> google_search(input[1], k, xthread)
      [] tool = "navigate_to_url" -> navigate_to_url(input[1], xthread)
      [] tool = "type_text"       -> type_text(input[1], input[2], xthread)
      [] tool = "click_element"   -> click_element(input[1], xthread)
      [] tool = "read_current_page_content" -> read_current_page_content(k, xthread)

(* ------------------------------ the agent ------------------------------ *)

\* What one oracle call gives: the call raises (fmt "error"), or returns a
\* text: a JSON object with the keys action and action_input (fmt "json"),
\* a JSON object without the key action (fmt "no_action"), or text that
\* holds no JSON object (fmt "prose").
Reply(fmt, action, input) == [fmt |-> fmt, action |-> action, input |-> input]

Replies ==
    { Reply("json", FinalAnswer, <<"ok">>),
      Reply("json", "google_search", <<"cats">>),
      Reply("json", "navigate_to_url", <<"https://portal">>),
      Reply("json", "navigate_to_url", <<"https://nowhere">>),
      Reply("json", "type_text", <<"#ok", "hello">>),
      Reply("json", "type_text", <<"#ok">>),
      Reply("json", "click_element", <<"#ok">>),
      Reply("json", "click_element", <<"#missing">>),
      Reply("json", "read_current_page_content", <<>>),
      Reply("json", "scroll_down", <<"100">>),
      Reply("no_action", "", <<"ok">>),
      Reply("prose", "", <<>>),
      Reply("error", "", <<>>) }

Scripts == UNION { [1..n -> Replies] : n \in 1..MaxScriptLen }

\* The scripts of the requests that overlap: the oracle answers at once,
\* searches, reads the page, navigates and reads, gives type_text a bad
\* input, or never names a tool (and runs into the iteration limit).
OverlapScripts ==
    { <<Reply("json", FinalAnswer, <<"ok">>)>>,
      <<Reply("json", "google_search", <<"cats">>),
        Reply("json", FinalAnswer, <<"ok">>)>>,
      <<Reply("json", "read_current_page_content", <<>>),
        Reply("json", FinalAnswer, <<"ok">>)>>,
      <<Reply("json", "navigate_to_url", <<"https://portal">>),
        Reply("json", "read_current_page_content", <<>>),
        Reply("json", FinalAnswer, <<"ok">>)>>,
      <<Reply("json", "type_text", <<"#ok">>)>>,
      <<Reply("json", "scroll_down", <<"100">>), Reply("prose", "", <<>>)>> }

\* The oracle's answer in iteration i (counted from 0) of a script.
Answer(s, i) == s[(i % Len(s)) + 1]

\* The agent's output parser, and what the executor makes of a parse error
\* under handle_parsing_errors=True: the action _Exception, whose
\* observation is the fixed correction text.
ParseErrorText == "Invalid or incomplete response"

Finish(output) == [type |-> "finish", tool |-> FinalAnswer, input |-> <<output>>]
AgentAction(tool, input) == [type |-> "action", tool |-> tool, input |-> input]
NoAction == AgentAction("", <<>>)

\* A parser that does not know the reserved action Final Answer.
PlanNoFinish(reply) ==
    IF reply.fmt = "json"
    THEN AgentAction(reply.action, reply.input)
    ELSE AgentAction("_Exception", <<ParseErrorText>>)

\* A parser that takes a text it cannot decode for the final answer.
PlanLenient(reply) ==
    IF reply.fmt = "json"
    THEN IF reply.action = FinalAnswer
         THEN Finish(reply.input[1])
         ELSE AgentAction(reply.action, reply.input)
    ELSE Finish("")

Plan(reply) ==
    IF reply.fmt = "json"
    THEN IF reply.action = FinalAnswer
         THEN Finish(reply.input[1])
         ELSE AgentAction(reply.action, reply.input)
    ELSE AgentAction("_Exception", <<ParseErrorText>>)

\* The loop condition with max_iterations=None.
ShouldContinueUnbounded(n) == TRUE

\* while self._should_continue(iterations, time_elapsed)
ShouldContinue(n) == n < MaxIterations

StoppedText == "Agent stopped due to iteration limit or time limit."

Step(action, obs) == [action |-> action.tool, input |-> action.input, observation |-> obs]

\* The response of execute_task: jsonify({"result": ...}) with status 200,
\* or jsonify({"error": ...}) with status 400 or 500.
Success(text) == [key |-> "result", text |-> text, status |-> 200]
Failure(text, status) == [key |-> "error", text |-> text, status |-> status]
NoResult == [key |-> "", text |-> "", status |-> 0]

\* The JSON bodies of a request that are no object: null, an array, a
\* string, an integer, a fraction, true or false (named by the type
\* request.json then has).
Bodies == {"NoneType", "list", "str", "int", "float", "bool"}

\* str of the AttributeError data.get raises on such a body.
BodyError(body) ==
    CASE body = "NoneType" -> "AttributeError: 'NoneType' object has no attribute 'get'"
      [] body = "list"     -> "AttributeError: 'list' object has no attribute 'get'"
      [] body = "str"      -> "AttributeError: 'str' object has no attribute 'get'"
      [] body = "int"      -> "AttributeError: 'int' object has no attribute 'get'"
      [] body = "float"    -> "AttributeError: 'float' object has no attribute 'get'"
      [] body = "bool"     -> "AttributeError: 'bool' object has no attribute 'get'"

\* An exception left execute_task: the function gives no response of its
\* own (the framework answers for it).
Escaped(text) == [key |-> "escaped", text |-> text, status |-> 0]

(* ------------------------------- actions ------------------------------- *)

Init ==
    /\ page = NoPage
    /\ browserState = [t \in Tasks |-> "none"]
    /\ lostMsg = [t \in Tasks |-> NoText]
    /\ pageMade = [t \in Tasks |-> FALSE]
    /\ pageDoc = [t \in Tasks |-> "about:blank"]
    /\ searchBox = [t \in Tasks |-> ""]
    /\ pageUsers = [t \in Tasks |-> {}]
    /\ closeCalls = [t \in Tasks |-> 0]
    /\ pc = [t \in Tasks |-> "idle"]
    /\ script = [t \in Tasks |-> <<>>]
    /\ iterations = [t \in Tasks |-> 0]
    /\ history = [t \in Tasks |-> <<>>]
    /\ pending = [t \in Tasks |-> NoAction]
    /\ op = [t \in Tasks |-> 0]
    /\ oracleCalls = [t \in Tasks |-> 0]
    /\ result = [t \in Tasks |-> NoResult]

\* Requests are named in the order they arrive.
Arrived(t) == t = "t1" \/ pc["t1"] # "idle"

\* A request whose JSON body is no object: data.get raises before the
\* task is looked at, outside every try of execute_task.
BadBody(t, body) ==
    /\ pc[t] = "idle"
    /\ Arrived(t)
    /\ pc' = [pc EXCEPT ![t] = "raised"]
    /\ result' = [result EXCEPT ![t] = Escaped(BodyError(body))]
    /\ UNCHANGED <<op, oracleCalls, page, browserState, lostMsg, pageMade, pageDoc, searchBox, pageUsers, closeCalls,
                   script, iterations, history, pending>>

\* A request whose body is an object without a task, or with an empty
\* one: rejected before the with block.
Reject(t) ==
    /\ pc[t] = "idle"
    /\ Arrived(t)
    /\ pc' = [pc EXCEPT ![t] = "returned"]
    /\ result' = [result EXCEPT ![t] = Failure("No task provided", 400)]
    /\ UNCHANGED <<op, oracleCalls, page, browserState, lostMsg, pageMade, pageDoc, searchBox, pageUsers, closeCalls,
                   script, iterations, history, pending>>

\* A request with a task reaches with sync_playwright() as p, for which
\* the oracle would answer by one of the scripts S: the driver starts and
\* the with block is entered, or its start raises, outside the try, and
\* the exception leaves execute_task.
Receive(t, S) ==
    /\ pc[t] = "idle"
    /\ Arrived(t)
    /\ \E s \in S : script' = [script EXCEPT ![t] = s]
    /\ \/ /\ pc' = [pc EXCEPT ![t] = "setup"]
          /\ UNCHANGED result
       \/ /\ pc' = [pc EXCEPT ![t] = "raised"]
          /\ result' = [result EXCEPT ![t] = Escaped("driver failed")]
    /\ UNCHANGED <<op, oracleCalls, page, browserState, lostMsg, pageMade, pageDoc, searchBox, pageUsers, closeCalls,
                   iterations, history, pending>>

\* p.chromium.launch raises: no browser, the handle is not assigned.
LaunchFails(t) ==
    /\ pc[t] = "setup"
    /\ pc' = [pc EXCEPT ![t] = "finally"]
    /\ result' = [result EXCEPT ![t] = Failure(LaunchError, 500)]
    /\ UNCHANGED <<op, oracleCalls, page, browserState, lostMsg, pageMade, pageDoc, searchBox,
                   pageUsers, closeCalls, script, iterations, history, pending>>

\* browser = p.chromium.launch(headless=False)
Launch(t) ==
    /\ pc[t] = "setup"
    /\ pc' = [pc EXCEPT ![t] = "context"]
    /\ browserState' = [browserState EXCEPT ![t] = "open"]
    /\ UNCHANGED <<op, oracleCalls, page, lostMsg, pageMade, pageDoc, searchBox,
                   pageUsers, closeCalls, script, iterations, history, pending, result>>

\* A call on the launched browser raises: with the driver's message if
\* the browser is lost, with the call's own error otherwise.
SetupError(t, own) == IF browserState[t] = "lost" THEN lostMsg[t].src ELSE own

\* browser.new_context() raises: the browser stays as it is, the handle
\* is not assigned.
ContextFails(t) ==
    /\ pc[t] = "context"
    /\ pc' = [pc EXCEPT ![t] = "finally"]
    /\ result' = [result EXCEPT ![t] = Failure(SetupError(t, ContextError), 500)]
    /\ UNCHANGED <<op, oracleCalls, page, browserState, lostMsg, pageMade, pageDoc, searchBox,
                   pageUsers, closeCalls, script, iterations, history, pending>>

\* context = browser.new_context(), on a browser that is connected.
NewContext(t) ==
    /\ pc[t] = "context"
    /\ browserState[t] = "open"
    /\ pc' = [pc EXCEPT ![t] = "newpage"]
    /\ UNCHANGED <<op, oracleCalls, page, browserState, lostMsg, pageMade, pageDoc, searchBox,
                   pageUsers, closeCalls, script, iterations, history, pending, result>>

\* context.new_page() raises and the loop is started all the same.
PageFailsGoesOn(t) ==
    /\ pc[t] = "newpage"
    /\ pc' = [pc EXCEPT ![t] = "think"]
    /\ UNCHANGED <<op, oracleCalls, page, browserState, lostMsg, pageMade, pageDoc, searchBox,
                   pageUsers, closeCalls, script, iterations, history, pending, result>>

\* context.new_page() raises: the browser stays as it is, the handle is
\* not assigned.
PageFails(t) ==
    /\ pc[t] = "newpage"
    /\ pc' = [pc EXCEPT ![t] = "finally"]
    /\ result' = [result EXCEPT ![t] = Failure(SetupError(t, NewPageError), 500)]
    /\ UNCHANGED <<op, oracleCalls, page, browserState, lostMsg, pageMade, pageDoc, searchBox,
                   pageUsers, closeCalls, script, iterations, history, pending>>

\* page = context.new_page(), on a browser that is connected: the
\* module-level handle is assigned.
NewPage(t) ==
    /\ pc[t] = "newpage"
    /\ browserState[t] = "open"
    /\ pc' = [pc EXCEPT ![t] = "think"]
    /\ pageMade' = [pageMade EXCEPT ![t] = TRUE]
    /\ page' = t
    /\ UNCHANGED <<op, oracleCalls, browserState, lostMsg, pageDoc, searchBox,
                   pageUsers, closeCalls, script, iterations, history, pending, result>>

\* The browser goes away under the task (it crashes, or its window is
\* closed: it runs with headless=False); is_connected() is False from then.
Disconnect(t, msg) ==
    /\ browserState[t] = "open"
    /\ pc[t] \in {"context", "newpage", "think", "act", "finally", "closing"}
    /\ browserState' = [browserState EXCEPT ![t] = "lost"]
    /\ lostMsg' = [lostMsg EXCEPT ![t] = msg]
    /\ UNCHANGED <<op, oracleCalls, page, pageMade, pageDoc, searchBox, pageUsers, closeCalls, pc,
                   script, iterations, history, pending, result>>

\* The loop's condition fails: the executor returns the stopped response
\* (early_stopping_method "force") as its output.
Stop(t) ==
    /\ pc[t] = "think"
    /\ ~ShouldContinue(iterations[t])
    /\ pc' = [pc EXCEPT ![t] = "finally"]
    /\ result' = [result EXCEPT ![t] = Success(StoppedText)]
    /\ UNCHANGED <<op, oracleCalls, page, browserState, lostMsg, pageMade, pageDoc, searchBox, pageUsers, closeCalls,
                   script, iterations, history, pending>>

\* One oracle call and the parse of its text.
Think(t) ==
    /\ pc[t] = "think"
    /\ ShouldContinue(iterations[t])
    /\ LET reply == Answer(script[t], iterations[t])
           plan == Plan(reply)
       IN  IF reply.fmt = "error"
           THEN /\ pc' = [pc EXCEPT ![t] = "finally"]
                /\ result' = [result EXCEPT ![t] = Failure("oracle call failed", 500)]
                /\ UNCHANGED pending
           ELSE IF plan.type = "finish"
           THEN /\ pc' = [pc EXCEPT ![t] = "finally"]
                /\ result' = [result EXCEPT ![t] = Success(plan.input[1])]
                /\ UNCHANGED pending
           ELSE /\ pc' = [pc EXCEPT ![t] = "act"]
                /\ pending' = [pending EXCEPT ![t] = plan]
                /\ UNCHANGED result
    /\ oracleCalls' = [oracleCalls EXCEPT ![t] = @ + 1]
    /\ UNCHANGED <<op, page, browserState, lostMsg, pageMade, pageDoc, searchBox, pageUsers, closeCalls,
                   script, iterations, history>>

\* The step replaces the intermediate steps instead of extending them.
ObserveReplaces(t, obs) ==
    /\ history' = [history EXCEPT ![t] = <<Step(pending[t], obs)>>]
    /\ iterations' = [iterations EXCEPT ![t] = @ + 1]
    /\ pending' = [pending EXCEPT ![t] = NoAction]
    /\ pc' = [pc EXCEPT ![t] = "think"]

\* The observation is appended and the iteration counted.
Observe(t, obs) ==
    /\ history' = [history EXCEPT ![t] = Append(@, Step(pending[t], obs))]
    /\ iterations' = [iterations EXCEPT ![t] = @ + 1]
    /\ pending' = [pending EXCEPT ![t] = NoAction]
    /\ pc' = [pc EXCEPT ![t] = "think"]

\* The action _Exception: the correction text is the observation.
ActParseError(t) ==
    /\ pc[t] = "act"
    /\ pending[t].tool = "_Exception"
    /\ Observe(t, Obs(ParseErrorText, "", NoText))
    /\ UNCHANGED <<op, oracleCalls, page, browserState, lostMsg, pageMade, pageDoc, searchBox, pageUsers, closeCalls,
                   script, result>>

\* A name that is no tool raises (a lookup in the tool map).
ActInvalidToolRaises(t) ==
    /\ pc[t] = "act"
    /\ pending[t].tool \notin ToolNames \cup {"_Exception"}
    /\ pc' = [pc EXCEPT ![t] = "finally"]
    /\ result' = [result EXCEPT ![t] = Failure("KeyError", 500)]
    /\ pending' = [pending EXCEPT ![t] = NoAction]
    /\ UNCHANGED <<op, oracleCalls, page, browserState, lostMsg, pageMade, pageDoc, searchBox, pageUsers, closeCalls,
                   script, iterations, history>>

\* A name that is no tool: InvalidTool answers with the name.
ActInvalidTool(t) ==
    /\ pc[t] = "act"
    /\ pending[t].tool \notin ToolNames \cup {"_Exception"}
    /\ Observe(t, Obs("{requested_tool_name} is not a valid tool, try one of [{available_tool_names}].",
                      pending[t].tool, NoText))
    /\ UNCHANGED <<op, oracleCalls, page, browserState, lostMsg, pageMade, pageDoc, searchBox, pageUsers, closeCalls,
                   script, result>>

\* The validation error is of a class the except clause does not name: it
\* leaves execute_task, which returns no response of its own.
ActRejectedUncaught(t) ==
    /\ pc[t] = "act"
    /\ pending[t].tool \in ToolNames
    /\ ~InputValid(pending[t].tool, pending[t].input)
    /\ pc' = [pc EXCEPT ![t] = "finally"]
    /\ pending' = [pending EXCEPT ![t] = NoAction]
    /\ UNCHANGED <<op, oracleCalls, page, browserState, lostMsg, pageMade, pageDoc, searchBox, pageUsers,
                   closeCalls, script, iterations, history, result>>

\* A tool whose input does not fit its schema: tool.run raises before the
\* body, the exception leaves invoke and reaches the except clause.
ActRejected(t) ==
    /\ pc[t] = "act"
    /\ pending[t].tool \in ToolNames
    /\ ~InputValid(pending[t].tool, pending[t].input)
    /\ pc' = [pc EXCEPT ![t] = "finally"]
    /\ result' = [result EXCEPT ![t] = Failure("validation error", 500)]
    /\ pending' = [pending EXCEPT ![t] = NoAction]
    /\ UNCHANGED <<op, oracleCalls, page, browserState, lostMsg, pageMade, pageDoc, searchBox, pageUsers, closeCalls,
                   script, iterations, history>>

\* tool.run accepts the input and the body starts: if not page.
ActTool(t) ==
    /\ pc[t] = "act"
    /\ op[t] = 0
    /\ pending[t].tool \in ToolNames
    /\ InputValid(pending[t].tool, pending[t].input)
    /\ IF page = NoPage
       THEN Observe(t, NotRunning) /\ UNCHANGED op
       ELSE /\ op' = [op EXCEPT ![t] = 1]
            /\ UNCHANGED <<pc, pending, iterations, history>>
    /\ UNCHANGED <<oracleCalls, page, browserState, lostMsg, pageMade, pageDoc, searchBox, pageUsers, closeCalls,
                   script, result>>

\* One page operation of the body: it reads the module-level handle and
\* operates on that page; the last one, or one that raises, ends the body.
PageOp(t, xthread) ==
    /\ pc[t] = "act"
    /\ op[t] > 0
    /\ xthread => (page # t /\ browserState[page] = "open")
    /\ LET out == RunTool(pending[t].tool, pending[t].input, op[t], xthread)
       IN  /\ pageUsers' = [pageUsers EXCEPT ![page] = @ \cup {t}]
           /\ pageDoc' = [pageDoc EXCEPT ![page] = out.doc]
           /\ searchBox' = [searchBox EXCEPT ![page] = out.box]
           /\ IF out.raised
              THEN /\ pc' = [pc EXCEPT ![t] = "finally"]
                   /\ result' = [result EXCEPT ![t] = Failure("tool raised", 500)]
                   /\ pending' = [pending EXCEPT ![t] = NoAction]
                   /\ op' = [op EXCEPT ![t] = 0]
                   /\ UNCHANGED <<iterations, history>>
              ELSE IF out.done
              THEN /\ Observe(t, out.obs)
                   /\ op' = [op EXCEPT ![t] = 0]
                   /\ UNCHANGED result
              ELSE /\ op' = [op EXCEPT ![t] = @ + 1]
                   /\ UNCHANGED <<pc, pending, iterations, history, result>>
    /\ UNCHANGED <<oracleCalls, page, browserState, lostMsg, pageMade, closeCalls, script>>

\* finally: if 'browser' in locals() and browser.is_connected().
Finally(t) ==
    /\ pc[t] = "finally"
    /\ pc' = [pc EXCEPT ![t] = IF browserState[t] = "open" THEN "closing" ELSE "returned"]
    /\ UNCHANGED <<op, oracleCalls, page, browserState, lostMsg, pageMade, pageDoc, searchBox, pageUsers,
                   closeCalls, script, iterations, history, pending, result>>

\* The close left out.
CloseSkipped(t) ==
    /\ pc[t] = "closing"
    /\ pc' = [pc EXCEPT ![t] = "returned"]
    /\ UNCHANGED <<op, oracleCalls, page, browserState, lostMsg, pageMade, pageDoc, searchBox, pageUsers,
                   closeCalls, script, iterations, history, pending, result>>

\* The close also resets the page handle.
CloseResetsPage(t) ==
    /\ pc[t] = "closing"
    /\ closeCalls' = [closeCalls EXCEPT ![t] = @ + 1]
    /\ browserState' =
          [browserState EXCEPT ![t] = IF @ = "open" THEN "closed" ELSE @]
    /\ page' = NoPage
    /\ pc' = [pc EXCEPT ![t] = "returned"]
    /\ UNCHANGED <<op, oracleCalls, lostMsg, pageMade, pageDoc, searchBox, pageUsers,
                   script, iterations, history, pending, result>>

\* browser.close(): it closes a connected browser; on a browser lost
\* since the check it returns as well (Browser.close passes over the
\* error of a target that is closed already).
Close(t) ==
    /\ pc[t] = "closing"
    /\ closeCalls' = [closeCalls EXCEPT ![t] = @ + 1]
    /\ browserState' =
          [browserState EXCEPT ![t] = IF @ = "open" THEN "closed" ELSE @]
    /\ pc' = [pc EXCEPT ![t] = "returned"]
    /\ UNCHANGED <<op, oracleCalls, page, lostMsg, pageMade, pageDoc, searchBox, pageUsers,
                   script, iterations, history, pending, result>>

\* The response is sent and the call's frame is gone.
Respond(t) ==
    /\ pc[t] \in {"returned", "raised"}
    /\ pc' = [pc EXCEPT ![t] = "gone"]
    /\ script' = [script EXCEPT ![t] = <<>>]
    /\ iterations' = [iterations EXCEPT ![t] = 0]
    /\ history' = [history EXCEPT ![t] = <<>>]
    /\ result' = [result EXCEPT ![t] = NoResult]
    /\ oracleCalls' = [oracleCalls EXCEPT ![t] = 0]
    /\ UNCHANGED <<op, page, browserState, lostMsg, pageMade, pageDoc, searchBox, pageUsers, closeCalls, pending>>

\* What a task does once its request is in.
Run(t) ==
    \/ LaunchFails(t)
    \/ Launch(t)
    \/ ContextFails(t)
    \/ NewContext(t)
    \/ PageFails(t)
    \/ NewPage(t)
    \/ Stop(t)
    \/ Think(t)
    \/ ActParseError(t)
    \/ ActInvalidTool(t)
    \/ ActRejected(t)
    \/ ActTool(t)
    \/ \E xthread \in BOOLEAN : PageOp(t, xthread)
    \/ Finally(t)
    \/ Close(t)

\* One request is served, under every oracle script.
Next ==
    \/ Reject("t1")
    \/ \E body \in Bodies : BadBody("t1", body)
    \/ Receive("t1", Scripts)
    \/ Run("t1")
    \/ \E msg \in LostErrors : Disconnect("t1", msg)
    \/ Respond("t1")

Spec == Init /\ [][Next]_vars

\* The calls of one request return: the oracle call, a page operation
\* (Playwright's timeouts), the browser's close.
FairSpec == Spec /\ WF_vars(Run("t1"))

\* Two requests, served by two threads of the development server
\* (app.run serves each request in a thread of its own), under the
\* scripts of OverlapScripts.
NextOverlap ==
    \E t \in Tasks :
        \/ Reject(t)
        \/ \E body \in Bodies : BadBody(t, body)
        \/ Receive(t, OverlapScripts)
        \/ Run(t)
        \/ \E msg \in LostErrors : Disconnect(t, msg)
        \/ Respond(t)

SpecOverlap == Init /\ [][NextOverlap]_vars

(* ------------------------------- claims -------------------------------- *)

Returned(t) == pc[t] = "returned"

\* The request went through the with block (it was not rejected for a
\* missing task).
RanTask(t) == Returned(t) /\ result[t].status # 400

\* C1 as stated: when execute_task returns from a task, the task's browser
\* is closed and browser.close() was called exactly once, whether the loop
\* ended in an answer, in an error, or setup raised.
C1_ClosedExactlyOnce ==
    \A t \in Tasks :
        RanTask(t) => browserState[t] = "closed" /\ closeCalls[t] = 1

\* C1 amended: browser.close() is called at most once per task, and only
\* by the finally clause after its test: the clause calls it exactly once
\* if the browser was launched and is connected when it is tested (the
\* call closes the browser, or finds it lost since the test), and not at
\* all if the launch raised or the browser was lost before the test. So
\* when execute_task returns the browser is not running: closed by the
\* one call, lost, or never launched (and the result is then an error); a
\* browser that was launched and never lost is closed by exactly one call.
C1_BrowserReleased ==
    /\ [][\A t \in Tasks :
            /\ closeCalls'[t] # closeCalls[t] => pc[t] = "closing"
            /\ pc[t] = "finally" /\ pc'[t] # "finally"
                  => /\ closeCalls[t] = 0
                     /\ pc'[t] = IF browserState[t] = "open" THEN "closing" ELSE "returned"
            /\ pc[t] = "closing" /\ pc'[t] # "closing"
                  => /\ pc'[t] = "returned"
                     /\ browserState[t] \in {"open", "lost"}
                     /\ closeCalls'[t] = 1
                     /\ browserState'[t] =
                           IF browserState[t] = "open" THEN "closed" ELSE "lost"]_vars
    /\ [](\A t \in Tasks :
            /\ closeCalls[t] <= 1
            /\ Returned(t) =>
                  /\ browserState[t] \in {"none", "lost", "closed"}
                  /\ browserState[t] = "closed" => closeCalls[t] = 1
                  /\ browserState[t] = "none"
                        => closeCalls[t] = 0 /\ result[t].key = "error"
                  /\ browserState[t] # "none" /\ lostMsg[t] = NoText
                        => browserState[t] = "closed" /\ closeCalls[t] = 1)

\* C1 witness: a loop that ran a tool and ended in an answer has returned
\* with its browser closed by one close call.
C1_Witness ==
    /\ Returned("t1")
    /\ result["t1"] = Success("ok")
    /\ pageMade["t1"]
    /\ Len(history["t1"]) > 0
    /\ browserState["t1"] = "closed"
    /\ closeCalls["t1"] = 1

\* C2: the loop ends whatever the oracle answers: the executor never runs
\* more than MaxIterations iterations, and every request that entered the
\* with block returns.
C2_Terminates ==
    /\ [](iterations["t1"] <= MaxIterations)
    /\ (pc["t1"] = "setup") ~> (pc["t1"] = "returned")

\* C2 witness: an oracle that never gave a final answer, and the request
\* has returned after MaxIterations iterations.
C2_Witness ==
    /\ Returned("t1")
    /\ iterations["t1"] = MaxIterations
    /\ Len(history["t1"]) = MaxIterations
    /\ \A i \in 1..Len(script["t1"]) : script["t1"][i].action # FinalAnswer

\* The loop is over (the executor has returned or raised).
LoopOver(t) == pc[t] \in {"finally", "closing", "returned"}

\* C3 as stated: a loop that reached the iteration limit without a final
\* answer gives the caller an error result, never a success result.
C3_LimitIsAnError ==
    \A t \in Tasks :
        LoopOver(t) /\ iterations[t] = MaxIterations => result[t].key = "error"

\* C4 as stated: the tools of a task operate on the page of that task
\* only, and while a task's loop runs the handle its tools read is the
\* page of that task, open unless its own browser was lost.
C4_OwnPageOnly ==
    \A t \in Tasks :
        /\ pageUsers[t] \subseteq {t}
        /\ pc[t] \in {"think", "act"} => page = t /\ browserState[t] # "closed"

\* The step is a run of one of the five tools by task t.
ToolStep(t) ==
    /\ pc[t] = "act"
    /\ pc'[t] # "act"
    /\ pending[t].tool \in ToolNames
    /\ InputValid(pending[t].tool, pending[t].input)

Last(h) == h[Len(h)]

\* C5 as stated: a tool that runs while the handle is unset or is the page
\* of a browser that has been closed returns "Browser is not running.",
\* does not raise and touches no page.
C5_NotRunningWhenClosed ==
    [][\A t \in Tasks :
         ToolStep(t) /\ (page = NoPage \/ browserState[page] = "closed")
           => /\ pc'[t] = "think"
              /\ Len(history'[t]) = Len(history[t]) + 1
              /\ Last(history'[t]).observation = NotRunning
              /\ pageUsers' = pageUsers]_vars

\* The step is the executor's handling of a name that is no tool.
InvalidToolStep(t) ==
    /\ pc[t] = "act"
    /\ pc'[t] # "act"
    /\ pending[t].tool \notin ToolNames \cup {"_Exception"}

InvalidToolText == "{requested_tool_name} is not a valid tool, try one of [{available_tool_names}]."

\* Steps of the history that ran one of the five tools.
RECURSIVE ToolRuns(_)
ToolRuns(h) ==
    IF h = <<>> THEN 0
    ELSE ToolRuns(Tail(h)) + (IF Head(h).action \in ToolNames THEN 1 ELSE 0)

\* The request returned because session setup raised.
SetupFailed(t) ==
    Returned(t) /\ result[t].status = 500 /\ ~pageMade[t]

UnknownThenOk ==
    <<Reply("json", "scroll_down", <<"100">>), Reply("json", FinalAnswer, <<"ok">>)>>

\* C6: an action whose name is no tool does not end the run: its step
\* appends an observation that names the action, touches no page, leaves
\* the result unset and goes back to thinking; and under the oracle
\* "unknown tool, then Final Answer ok" the run returns the success result
\* "ok" after exactly one step, with no tool run (unless session setup
\* raised and the loop never started).
C6_UnknownActionRecovered ==
    /\ [][\A t \in Tasks :
            InvalidToolStep(t)
              => /\ pc'[t] = "think"
                 /\ result'[t] = NoResult
                 /\ history'[t] =
                       Append(history[t],
                              [action |-> pending[t].tool,
                               input |-> pending[t].input,
                               observation |-> Obs(InvalidToolText, pending[t].tool, NoText)])
                 /\ iterations'[t] = iterations[t] + 1
                 /\ pageUsers' = pageUsers /\ pageDoc' = pageDoc]_vars
    /\ [](\A t \in Tasks :
            Returned(t) /\ script[t] = UnknownThenOk /\ ~SetupFailed(t)
              => /\ result[t] = Success("ok")
                 /\ Len(history[t]) = 1
                 /\ history[t][1].observation.arg = "scroll_down"
                 /\ ToolRuns(history[t]) = 0
                 /\ pageUsers[t] = {})

\* C6 witness: the oracle named scroll_down, then gave Final Answer ok, and
\* the request has returned "ok" after the one corrective step.
C6_Witness ==
    /\ Returned("t1")
    /\ script["t1"] = UnknownThenOk
    /\ result["t1"] = Success("ok")
    /\ Len(history["t1"]) = 1
    /\ history["t1"][1].action = "scroll_down"

\* The oracle's text in this iteration cannot be decoded.
Undecodable(t) ==
    /\ pc[t] = "think"
    /\ ShouldContinue(iterations[t])
    /\ Answer(script[t], iterations[t]).fmt \in {"prose", "no_action"}

\* C7: an oracle text that cannot be decoded does not end the run: the
\* think step plans the corrective action and sets no result, and the act
\* step that follows appends the corrective observation, runs no tool
\* (no page is touched) and goes back to thinking.
C7_ParseFailureRecovered ==
    [][\A t \in Tasks :
         /\ Undecodable(t) /\ pc'[t] # "think"
              => /\ pc'[t] = "act"
                 /\ pending'[t] = AgentAction("_Exception", <<ParseErrorText>>)
                 /\ result'[t] = NoResult
                 /\ history'[t] = history[t]
         /\ pc[t] = "act" /\ pending[t].tool = "_Exception" /\ pc'[t] # "act"
              => /\ pc'[t] = "think"
                 /\ result'[t] = NoResult
                 /\ history'[t] =
                       Append(history[t],
                              [action |-> "_Exception",
                               input |-> <<ParseErrorText>>,
                               observation |-> Obs(ParseErrorText, "", NoText)])
                 /\ ToolRuns(history'[t]) = ToolRuns(history[t])
                 /\ pageUsers' = pageUsers /\ pageDoc' = pageDoc]_vars

\* C7 witness: the loop is thinking again after a step whose observation
\* is the correction text.
C7_Witness ==
    /\ pc["t1"] = "think"
    /\ Len(history["t1"]) > 0
    /\ Last(history["t1"]).action = "_Exception"
    /\ Last(history["t1"]).observation.tmpl = ParseErrorText
    /\ result["t1"] = NoResult

\* The parse failures at the end of the history.
RECURSIVE TrailingParseFailures(_)
TrailingParseFailures(h) ==
    IF h = <<>> \/ Last(h).action # "_Exception" THEN 0
    ELSE 1 + TrailingParseFailures(SubSeq(h, 1, Len(h) - 1))

\* C8 as stated, for any bound below the iteration limit: a run whose
\* consecutive parse failures reached the iteration limit has ended in
\* Failed(unparseable-output), and the caller gets an error result.
C8_ParseFailuresEscalate ==
    \A t \in Tasks :
        LoopOver(t) /\ TrailingParseFailures(history[t]) = MaxIterations
          => result[t].key = "error"

\* Operation k of the tool's body raises: the handle's browser is closed
\* or lost, the URL does not load, or the selector resolves to nothing.
OperationRaises(tool, input, k) ==
    \/ browserState[page] # "open"
    \/ tool = "navigate_to_url" /\ input[1] \notin GoodUrls
    \/ tool \in {"type_text", "click_element"} /\ input[1] # "#ok"
    \/ tool = "google_search" /\ k = 2 /\ ~HasSearchBox(pageDoc[page])

\* The step is a page operation of the tool that task t runs.
PageOpStep(t) ==
    /\ pc[t] = "act"
    /\ op[t] > 0
    /\ op'[t] # op[t]

\* The text each tool returns when its page operation raised.
ErrorText(tool) ==
    CASE tool = "google_search"   -> "Error during Google search: {e}"
      [] tool = "navigate_to_url" -> "Error navigating to url: {e}"
      [] tool = "type_text"       -> "Error typing text: {e}"
      [] tool = "click_element"   -> "Error clicking element: {e}"
      [] tool = "read_current_page_content" -> "Could not get page content. Error: {e}"

PageErrors == {ClosedError, TimeoutError, NavError, ThreadError} \cup LostErrors

\* C9: a page operation of any of the five tools that raises ends the
\* tool's run with a step appended whose observation is the tool's error
\* text with the exception's message; it sets no result (nothing leaves
\* the loop) and the loop goes back to thinking.
C9_ToolFailureObserved ==
    [][\A t \in Tasks :
         PageOpStep(t) /\ OperationRaises(pending[t].tool, pending[t].input, op[t])
           => /\ pc'[t] = "think"
              /\ result'[t] = NoResult
              /\ Len(history'[t]) = Len(history[t]) + 1
              /\ SubSeq(history'[t], 1, Len(history[t])) = history[t]
              /\ Last(history'[t]).action = pending[t].tool
              /\ Last(history'[t]).observation.tmpl = ErrorText(pending[t].tool)
              /\ Last(history'[t]).observation.body \in PageErrors]_vars

\* C9 witness: two tools failed in a row (a navigation error, then a
\* selector that is not found) and the loop is thinking again.
C9_Witness ==
    /\ pc["t1"] = "think"
    /\ result["t1"] = NoResult
    /\ Len(history["t1"]) = 2
    /\ history["t1"][1].observation = Obs("Error navigating to url: {e}", "", NavError)
    /\ history["t1"][2].observation = Obs("Error clicking element: {e}", "", TimeoutError)

\* C10 as stated: every observation of read_current_page_content is at
\* most MaxContentLen characters long, whichever way the tool returned, and
\* a successful read is the start of the page's text.
C10_ReadBounded ==
    \A t \in Tasks :
        \A i \in 1..Len(history[t]) :
            history[t][i].action = "read_current_page_content"
              => /\ ObsLen(history[t][i].observation) <= MaxContentLen
                 /\ history[t][i].observation.tmpl = "{content}"
                       => history[t][i].observation.body =
                            Take(DocText(history[t][i].observation.body.src), MaxContentLen)

\* The oracle's first answer for the task is a final answer.
FinishFirst(t) ==
    /\ script[t] # <<>>
    /\ script[t][1].fmt = "json"
    /\ script[t][1].action = FinalAnswer

\* The tools of task t operated on no page.
NoPageTouched(t) == \A p \in Tasks : t \notin pageUsers[p]

\* C11: when the oracle's first answer is a final answer (and session
\* setup did not raise), execute_task returns the success result with that
\* answer after one oracle call and no step, having touched no page; the
\* browser was launched and is no longer running, closed by one close call
\* unless it was lost before.
C11_ImmediateFinish ==
    \A t \in Tasks :
        RanTask(t) /\ ~SetupFailed(t) /\ FinishFirst(t)
          => /\ result[t] = Success(script[t][1].input[1])
             /\ oracleCalls[t] = 1
             /\ history[t] = <<>>
             /\ iterations[t] = 0
             /\ NoPageTouched(t)
             /\ browserState[t] \in {"closed", "lost"}
             /\ lostMsg[t] = NoText => browserState[t] = "closed" /\ closeCalls[t] = 1

\* C11 witness: the oracle answered "ok" at once and the request has
\* returned it, after one oracle call, with the browser closed.
C11_Witness ==
    /\ Returned("t1")
    /\ FinishFirst("t1")
    /\ result["t1"] = Success("ok")
    /\ oracleCalls["t1"] = 1
    /\ history["t1"] = <<>>
    /\ browserState["t1"] = "closed"
    /\ closeCalls["t1"] = 1

\* execute_task is in session setup for the task: at the launch, at
\* new_context, or at new_page.
InSetup(t) == pc[t] \in {"setup", "context", "newpage"}

\* Session setup raised for the task: its request had a task, execute_task
\* is in or past its finally clause and the task's page was never made.
SetupRaised(t) == LoopOver(t) /\ script[t] # <<>> /\ ~pageMade[t]

\* The driver did not start for the task's request.
DriverFailed(t) == pc[t] = "raised" /\ script[t] # <<>>

\* C12: when session setup raises, at the launch, at new_context or at
\* new_page, with the browser connected or lost (the step leaves setup
\* for the finally clause), the step sets an error result of status 500
\* and no oracle call or step has been made; from there execute_task only
\* tests and closes the browser and returns that error: no oracle call is
\* made, no step is taken and no page is touched for the task. When the
\* driver itself does not start, ahead of the launch, the loop is
\* bypassed as well and no success result is given: the exception leaves
\* execute_task.
C12_SetupFailureBypassesLoop ==
    /\ [][\A t \in Tasks :
            /\ InSetup(t) /\ pc'[t] = "finally"
                 => /\ result'[t].key = "error"
                    /\ result'[t].status = 500
                    /\ ~pageMade'[t]
                    /\ page' = page
                    /\ oracleCalls'[t] = 0
                    /\ history'[t] = <<>>
            /\ InSetup(t) /\ ~InSetup(t)'
                 => \/ pc'[t] = "finally"
                    \/ pc'[t] = "think" /\ pageMade'[t] /\ page' = t
            /\ pc[t] \in {"finally", "closing"} /\ pc'[t] # pc[t]
                 => /\ pc'[t] \in {"closing", "returned"}
                    /\ result'[t] = result[t]
                    /\ oracleCalls'[t] = oracleCalls[t]
                    /\ history'[t] = history[t]
                    /\ pageUsers' = pageUsers
            /\ pc[t] = "returned" => pc'[t] \in {"returned", "gone"}
            /\ pc[t] = "raised" => pc'[t] \in {"raised", "gone"}]_vars
    /\ [](\A t \in Tasks :
            /\ SetupRaised(t)
                 => /\ result[t].key = "error"
                    /\ result[t].status = 500
                    /\ oracleCalls[t] = 0
                    /\ history[t] = <<>>
                    /\ iterations[t] = 0
                    /\ NoPageTouched(t)
            /\ DriverFailed(t)
                 => /\ result[t] = Escaped("driver failed")
                    /\ browserState[t] = "none"
                    /\ oracleCalls[t] = 0
                    /\ history[t] = <<>>
                    /\ iterations[t] = 0
                    /\ NoPageTouched(t))

\* C12 witness: the launch raised for one request and new_page raised for
\* the other, on a browser that was launched and is closed again by one
\* call; both have returned their errors without an oracle call.
C12_Witness ==
    /\ Returned("t1")
    /\ result["t1"] = Failure(NewPageError, 500)
    /\ browserState["t1"] = "closed"
    /\ closeCalls["t1"] = 1
    /\ oracleCalls["t1"] = 0
    /\ history["t1"] = <<>>
    /\ Returned("t2")
    /\ result["t2"] = Failure(LaunchError, 500)
    /\ browserState["t2"] = "none"
    /\ oracleCalls["t2"] = 0
    /\ page = NoPage

\* The loop of the task ended in a final answer of the oracle: setup did
\* not raise and the reply of the iteration the loop stopped in is one.
EndedInAnswer(t) ==
    /\ RanTask(t)
    /\ ~SetupFailed(t)
    /\ iterations[t] < MaxIterations
    /\ Answer(script[t], iterations[t]).fmt = "json"
    /\ Answer(script[t], iterations[t]).action = FinalAnswer

\* C13 as stated: a task that has returned has exactly one result, a
\* success or an error; it is the success result with the oracle's final
\* answer if the loop ended in one, and an error result in every other
\* case (the loop failed, or setup raised).
C13_OneResultMapped ==
    \A t \in Tasks :
        RanTask(t)
          => /\ result[t].key \in {"result", "error"}
             /\ (result[t].key = "result") <=> (result[t].status = 200)
             /\ EndedInAnswer(t)
                   => result[t] = Success(Answer(script[t], iterations[t]).input[1])
             /\ ~EndedInAnswer(t) => result[t].key = "error"

\* An exception is about to leave the agent run: the oracle call raises,
\* or a tool's input is rejected before the tool's body.
Escapes(t) ==
    \/ /\ pc[t] = "think"
       /\ ShouldContinue(iterations[t])
       /\ Answer(script[t], iterations[t]).fmt = "error"
    \/ /\ pc[t] = "act"
       /\ pending[t].tool \in ToolNames
       /\ ~InputValid(pending[t].tool, pending[t].input)

EscapeTexts == {"oracle call failed", "validation error"}

\* C14: an exception that leaves the agent run ends the task in the
\* except clause: the step sets an error result (status 500) that names
\* the exception and appends nothing, and the result a returned task
\* carries is then that error, never a success or no result, with the
\* task's browser no longer running: closed by one close call unless it
\* was lost before.
C14_EscapedExceptionReported ==
    /\ [][\A t \in Tasks :
            Escapes(t) /\ pc'[t] # pc[t]
              => /\ pc'[t] = "finally"
                 /\ result'[t].key = "error"
                 /\ result'[t].status = 500
                 /\ result'[t].text \in EscapeTexts
                 /\ history'[t] = history[t]]_vars
    /\ [][\A t \in Tasks :
            pc[t] \in {"finally", "closing"} /\ pc'[t] # pc[t]
              => /\ pc'[t] \in {"closing", "returned"}
                 /\ result'[t] = result[t]
                 /\ result[t] # NoResult]_vars
    /\ [](\A t \in Tasks :
            Returned(t) /\ result[t].text \in EscapeTexts
              => /\ result[t].key = "error"
                 /\ browserState[t] \in {"closed", "lost"}
                 /\ lostMsg[t] = NoText
                       => browserState[t] = "closed" /\ closeCalls[t] = 1)

\* C14 witness: a tool ran, then type_text was given an input its schema
\* rejects, and the request has returned the error with its browser
\* closed.
C14_Witness ==
    /\ Returned("t1")
    /\ result["t1"] = Failure("validation error", 500)
    /\ Len(history["t1"]) = 1
    /\ browserState["t1"] = "closed"
    /\ closeCalls["t1"] = 1

\* C15: within one task the loop is strictly sequential. The oracle is
\* queried only when no action is pending and every earlier query's step
\* has been appended; an action is pending only while the task is at its
\* tool call, one at a time; the intermediate steps change only by one
\* step appended for the pending action at the end of an iteration, the
\* steps before it untouched (they are dropped with the call's frame).
C15_StrictlySequential ==
    /\ [][\A t \in Tasks :
            /\ oracleCalls'[t] = oracleCalls[t] + 1
                  => /\ pc[t] = "think"
                     /\ pending[t] = NoAction
                     /\ oracleCalls[t] = Len(history[t])
                     /\ iterations[t] = Len(history[t])
            /\ history'[t] # history[t]
                  => \/ pc'[t] = "gone" /\ history'[t] = <<>>
                     \/ /\ pc[t] = "act"
                        /\ pc'[t] = "think"
                        /\ pending[t] # NoAction
                        /\ pending'[t] = NoAction
                        /\ Len(history'[t]) = Len(history[t]) + 1
                        /\ SubSeq(history'[t], 1, Len(history[t])) = history[t]
                        /\ Last(history'[t]).action = pending[t].tool
                        /\ Last(history'[t]).input = pending[t].input
                        /\ iterations'[t] = iterations[t] + 1
                        /\ oracleCalls'[t] = oracleCalls[t]]_vars
    /\ [](\A t \in Tasks :
            /\ (pending[t] # NoAction) <=> (pc[t] = "act")
            /\ op[t] > 0 => pc[t] = "act" /\ pending[t].tool \in ToolNames
            /\ pc[t] = "act" => oracleCalls[t] = Len(history[t]) + 1
            /\ pc[t] = "think" => oracleCalls[t] = Len(history[t]))

\* C15 witness: the third query of a task is answered, two steps having
\* been appended one after the other.
C15_Witness ==
    /\ pc["t1"] = "act"
    /\ oracleCalls["t1"] = 3
    /\ Len(history["t1"]) = 2
    /\ history["t1"][1].action = "navigate_to_url"
    /\ history["t1"][2].action = "read_current_page_content"

\* Something of the agent run of t happens in the step: a query, a tool
\* call, an appended step or the run's end.
AgentStep(t) ==
    /\ pc[t] \in {"think", "act"}
    /\ \/ pc'[t] # pc[t]
       \/ oracleCalls'[t] # oracleCalls[t]
       \/ history'[t] # history[t]
       \/ pending'[t] # pending[t]
       \/ op'[t] # op[t]

\* The session of the task is Active: its browser is connected and its
\* page has been made, and the browser has not been closed.
Active(t) == browserState[t] = "open" /\ pageMade[t]

\* C16 as stated: the session of a task becomes Active once, before the
\* task's first oracle query; every query and tool call of the task
\* happens while that session is Active; and nothing of the agent run
\* happens once the browser is closed.
C16_ActiveOnceAroundLoop ==
    [][\A t \in Tasks :
        /\ Active(t)' /\ ~Active(t)
              => /\ pc[t] = "newpage"
                 /\ browserState[t] = "open"
                 /\ oracleCalls[t] = 0
                 /\ history[t] = <<>>
        /\ AgentStep(t) \/ oracleCalls'[t] > oracleCalls[t]
                        \/ Len(history'[t]) > Len(history[t])
              => Active(t)
        /\ browserState[t] = "closed"
              => /\ browserState'[t] = "closed"
                 /\ ~AgentStep(t)]_vars

\* C17 as stated: a request without a task (it leaves its arrival with
\* no script, no oracle being asked for it) returns the error "No task provided"
\* with status 400, in a step that leaves the page handle, every browser
\* and page, and the queries and steps alone.
C17_NoTaskRejected ==
    [][\A t \in Tasks :
         pc[t] = "idle" /\ pc'[t] # "idle" /\ script'[t] = <<>>
           => /\ pc'[t] = "returned"
              /\ result'[t].key = "error"
              /\ result'[t].text = "No task provided"
              /\ result'[t].status = 400
              /\ page' = page
              /\ browserState' = browserState
              /\ pageDoc' = pageDoc
              /\ pageUsers' = pageUsers
              /\ closeCalls' = closeCalls
              /\ oracleCalls' = oracleCalls
              /\ history' = history]_vars

\* C18: the page handle changes only in the step in which
\* context.new_page() returns the task's page, after the launch and
\* new_context, on a connected browser, and it becomes that page; the
\* launch, new_context, a setup that raises at any of the three calls, a
\* tool's operations, the finally clause's test and the close leave it as
\* it is; once it is a page it is never None again.
C18_PageWrittenBySetupOnly ==
    [][/\ page' # page
            => \E t \in Tasks :
                  /\ pc[t] = "newpage"
                  /\ pc'[t] = "think"
                  /\ browserState[t] = "open"
                  /\ ~pageMade[t] /\ pageMade'[t]
                  /\ page' = t
       /\ page # NoPage => page' # NoPage
       /\ \A t \in Tasks :
            /\ pc[t] \in {"setup", "context", "act", "finally", "closing"} /\ pc'[t] # pc[t]
                  => page' = page
            /\ InSetup(t) /\ pc'[t] = "finally" => page' = page
            /\ op'[t] # op[t] => page' = page
            /\ closeCalls'[t] # closeCalls[t] => page' = page]_vars

\* C18 witness: the first task created the page, ran a tool and closed
\* its browser; the second task's new_page then raised on its own
\* launched browser, which it closed; the handle is still the first
\* task's page.
C18_Witness ==
    /\ page = "t1"
    /\ browserState["t1"] = "closed"
    /\ "t1" \in pageUsers["t1"]
    /\ Returned("t2")
    /\ result["t2"] = Failure(NewPageError, 500)
    /\ browserState["t2"] = "closed"
    /\ closeCalls["t2"] = 1

=============================================================================
